---- MODULE Spec2Model ----
(***************************************************************************)
(* The interview orchestration hook (useInterview), its reducer, and the   *)
(* speech adapters it drives (useSpeechRecognition, speak, playAudio,      *)
(* stopAudio), together with the /api/chat route it calls.                 *)
(*                                                                         *)
(* Granularity.  JavaScript runs one task at a time: when an awaited       *)
(* promise settles, the continuation of the async function runs to its     *)
(* next await (through every chained microtask) before any other event,    *)
(* click or render.  One action of this model is therefore one event       *)
(* together with the whole continuation it resumes.  The reducer states a  *)
(* continuation passes through are kept, for the step just taken, in the   *)
(* variable dispatched; the values of the variables between two actions    *)
(* are what a render can show.                                             *)
(*                                                                         *)
(* Texts.  A text is a sequence of elements; the element " " is one        *)
(* whitespace character and every other element stands for a run of        *)
(* non-whitespace characters.  The fixed sentences of the program (the     *)
(* opening question, the silence placeholder, the replies) are texts of    *)
(* one opaque element: no code path looks inside them.                     *)
(*                                                                         *)
(* Not modelled: isListening, liveTranscript and speechDuration of         *)
(* useSpeechRecognition (state that only the presentation layer reads, so  *)
(* recognition.onstart, which writes nothing else, has no action) and     *)
(* voices.  In Spec an audio element fires no event once it is paused, a   *)
(* recognizer none after the event that settles its promise, and the host  *)
(* has SpeechRecognition and speechSynthesis; the specifications of the    *)
(* adapters on their own lift these restrictions.                          *)
(*                                                                         *)
(* Specifications.                                                         *)
(*   Spec         the hook with its adapters and the route                 *)
(*   SpecSession  one session that endInterview() does not interrupt, the  *)
(*                remote model answering in or out of contract             *)
(*   SpecLive     SpecSession with the awaited operations settling in the  *)
(*                end (weak fairness), for progress                        *)
(*   SpecWPM      calculateWPM on its own                                  *)
(*   SpecRoute    the POST handler of /api/chat on its own, in the version *)
(*                of app/api/chat/route.ts and in the second version the   *)
(*                repository holds                                         *)
(*   SpecCapture  useSpeechRecognition on its own, the host with or        *)
(*                without SpeechRecognition, late onend events included    *)
(*   SpecRequest  the messages of a request on their own, built from      *)
(*                histories shorter and longer than the window             *)
(*   SpecSpeech   speak() of lib/speech on its own, over the utterance     *)
(*                queue of the host                                        *)
(*   SpecAudio    playAudio() and stopAudio() of lib/speech on their own,  *)
(*                one Audio element per call, late events included         *)
(***************************************************************************)
EXTENDS Integers, Sequences, FiniteSets, TLC

\* ---- bounds of the model ------------------------------------------------
\* accepted startInterview() calls in one behaviour
MaxLoops == 2
\* turns appended to state.history in one behaviour, over all sessions
MaxTurns == 5
\* elements of a transcript given to calculateWPM on its own
MaxTextLen == 5
\* startListening() calls made to useSpeechRecognition on its own
MaxCalls == 3
\* speak() calls made to lib/speech on its own
MaxSpeaks == 4
\* playAudio() calls made to lib/speech on its own
MaxClips == 3
\* entries of the history a request is built from, on its own
MaxHistory == 12

\* ---- texts ----------------------------------------------------------------
OPENING_QUESTION == <<"Welcome to your mock interview.">>
SILENT_PLACEHOLDER == <<"(The user was silent and didn't respond.)">>
\* what the finalized results of an onresult event may concatenate to (before
\* the first event the transcript of a capture is empty)
CaptureTexts == { <<" ">>, <<"one", " ", "two">> }
\* (Date.now() - startTimeRef.current) in milliseconds
DurationsMs == { 3000 }
\* SpeechRecognitionErrorEvent.error
CaptureErrors == { "no-speech", "not-allowed" }

RECURSIVE trimStart(_)
trimStart(t) ==
  IF t = <<>> THEN <<>>
  ELSE IF Head(t) = " " THEN trimStart(Tail(t)) ELSE t

RECURSIVE trimEnd(_)
trimEnd(t) ==
  IF t = <<>> THEN <<>>
  ELSE IF t[Len(t)] = " " THEN trimEnd(SubSeq(t, 1, Len(t) - 1)) ELSE t

\* String.prototype.trim
trim(t) == trimEnd(trimStart(t))

\* t.split(/\s+/).length for a trimmed, non-empty t: the number of maximal
\* runs of non-whitespace elements
RECURSIVE splitLength(_)
splitLength(t) ==
  IF t = <<>> THEN 0
  ELSE IF Len(t) = 1 THEN 1
  ELSE IF Head(t) # " " /\ t[2] = " " THEN 1 + splitLength(trimStart(Tail(t)))
  ELSE splitLength(Tail(t))

\* variant of calculateWPM that truncates (Math.floor) instead of rounding
calculateWPM_truncates(transcript, durationMs) ==
  IF trim(transcript) = <<>> \/ durationMs <= 0 THEN 0
  ELSE LET wordCount == splitLength(trim(transcript))
       IN (wordCount * 60000) \div durationMs

\* calculateWPM, the duration given in milliseconds (durationSeconds * 1000);
\* Math.round rounds half up
calculateWPM(transcript, durationMs) ==
  IF trim(transcript) = <<>> \/ durationMs <= 0 THEN 0
  ELSE LET wordCount == splitLength(trim(transcript))
       IN (2 * wordCount * 60000 + durationMs) \div (2 * durationMs)

\* Array.prototype.slice(-n)
sliceLast(s, n) == IF Len(s) <= n THEN s ELSE SubSeq(s, Len(s) - n + 1, Len(s))

HISTORY_WINDOW == 10

\* variant of requestMessages that sends the whole history
requestMessages_wholeHistory(history, finalTranscript) ==
  Append(history, [role |-> "user", content |-> finalTranscript])

\* the messages field of the body runLoop posts to /api/chat
requestMessages(history, finalTranscript) ==
  LET recentHistory == sliceLast(history, HISTORY_WINDOW)
  IN Append(recentHistory, [role |-> "user", content |-> finalTranscript])

\* ---- types/index.ts ---------------------------------------------------------
EMPTY_METRICS ==
  [confidence_score |-> 0, pacing_wpm |-> 0, clarity_score |-> 0,
   tone |-> "professional", feedback_text |-> ""]

Phases == {"idle", "listening", "processing", "speaking"}

\* error: null
NoError == <<>>

initialState ==
  [phase |-> "idle", transcript |-> <<>>, history |-> <<>>,
   stats |-> EMPTY_METRICS, allStats |-> <<>>, error |-> NoError]

\* ---- the reducer ----------------------------------------------------------
\* the switch of reducer
reducerCases(s, action) ==
  CASE action.type = "START_LISTENING" ->
         [s EXCEPT !.phase = "listening", !.transcript = <<>>, !.error = NoError]
    [] action.type = "UPDATE_TRANSCRIPT" ->
         [s EXCEPT !.transcript = action.transcript]
    [] action.type = "START_PROCESSING" ->
         [s EXCEPT !.phase = "processing",
                   !.history = Append(@, [role |-> "user", content |-> action.transcript])]
    [] action.type = "RECEIVE_RESPONSE" ->
         [s EXCEPT !.stats = action.analysis,
                   !.allStats = IF action.isOpening THEN @ ELSE Append(@, action.analysis),
                   !.history = Append(@, [role |-> "assistant", content |-> action.reply])]
    [] action.type = "START_SPEAKING" -> [s EXCEPT !.phase = "speaking"]
    [] action.type = "FINISH_SPEAKING" -> [s EXCEPT !.phase = "idle"]
    [] action.type = "SET_ERROR" -> [s EXCEPT !.phase = "idle", !.error = action.error]
    [] action.type = "RESET" -> initialState
    [] OTHER -> s

\* variants of reducer with one case changed
\* RESET keeps the metrics of the previous session
reducer_resetKeepsStats(s, action) ==
  IF action.type = "RESET" THEN [initialState EXCEPT !.allStats = s.allStats]
  ELSE reducerCases(s, action)

\* RECEIVE_RESPONSE ignores isOpening
reducer_openingCounted(s, action) ==
  IF action.type = "RECEIVE_RESPONSE"
  THEN reducerCases(s, [action EXCEPT !.isOpening = FALSE])
  ELSE reducerCases(s, action)

\* START_PROCESSING does not append the user turn
reducer_userTurnDropped(s, action) ==
  IF action.type = "START_PROCESSING" THEN [s EXCEPT !.phase = "processing"]
  ELSE reducerCases(s, action)

\* SET_ERROR starts from the initial state
reducer_errorClearsHistory(s, action) ==
  IF action.type = "SET_ERROR"
  THEN [initialState EXCEPT !.error = action.error]
  ELSE reducerCases(s, action)

\* START_LISTENING keeps the error
reducer_listeningKeepsError(s, action) ==
  IF action.type = "START_LISTENING"
  THEN [s EXCEPT !.phase = "listening", !.transcript = <<>>]
  ELSE reducerCases(s, action)

reducer(s, action) == reducerCases(s, action)

\* ---- /api/chat -----------------------------------------------------------
FALLBACK_RESPONSE ==
  [reply |-> <<"I'm having trouble processing that.">>,
   analysis |-> [confidence_score |-> 50, pacing_wpm |-> 0, clarity_score |-> 50,
                 tone |-> "professional",
                 feedback_text |-> "Take a moment to organize your thoughts before responding."]]

\* what the completion call of the route produces: it throws, it has no
\* content, its content is not JSON, or its content parses to an object
Completions ==
  { [kind |-> "throws"],
    [kind |-> "parsed", replyIsString |-> TRUE, hasAnalysis |-> TRUE,
     reply |-> <<"Can you give a concrete example?">>,
     analysis |-> [confidence_score |-> 80, pacing_wpm |-> 999, clarity_score |-> 70,
                   tone |-> "casual", feedback_text |-> "Use the STAR method."]] }

Json(status, body) == [status |-> status, body |-> body]
DataBody(r) == [kind |-> "data", reply |-> r.reply, analysis |-> r.analysis]
ErrorBody(e) == [kind |-> "error", error |-> e]

\* the POST handler, for a body whose messages field is the array messages
POST(messages, completion) ==
  IF \E k \in 1..Len(messages) : messages[k].content = <<>>
  THEN Json(400, ErrorBody("Invalid message format: role and content required"))
  ELSE CASE completion.kind = "throws" -> Json(200, DataBody(FALLBACK_RESPONSE))
         [] completion.kind = "nocontent" -> Json(200, DataBody(FALLBACK_RESPONSE))
         [] completion.kind = "badjson" -> Json(200, DataBody(FALLBACK_RESPONSE))
         [] completion.kind = "parsed" ->
              IF ~completion.replyIsString \/ ~completion.hasAnalysis
              THEN Json(200, DataBody(FALLBACK_RESPONSE))
              ELSE Json(200, DataBody(completion))

\* a response that does not come from the handler: the route failed to load
\* or the platform answered for it; its body is not JSON
PlatformFailure == Json(500, [kind |-> "nonjson"])

NoRes == Json(0, [kind |-> "none"])

\* ---- state ------------------------------------------------------------------
VARIABLES
  state,          \* the reducer state of useInterview (InterviewState)
  isRunningRef,   \* isRunningRef.current
  loops,          \* one entry per accepted startInterview() call: the position
                  \* of that async call and the locals of its runLoop
  recognizers,    \* per loop, the SpeechRecognition object of its pending capture
  recognitionRef, \* recognitionRef.current: 0 (null) or the loop whose
                  \* recognizer it designates
  currentAudio,   \* currentAudio of lib/speech: 0 (null) or 1 (the element
                  \* that is playing)
  utterance,      \* the utterance speechSynthesis is speaking
  dispatched,     \* the reducer actions dispatched by the last step, in order
  lastCall,       \* the event or command the last step handled
  turns,          \* the number of turns appended to state.history so far
  args,           \* the arguments of the function under study, when a
                  \* function is studied on its own (<<>> otherwise)
  returned,       \* what that function returned (<<>> before it has)
  synthesisQueue, \* the utterance queue of window.speechSynthesis, when
                  \* lib/speech is studied on its own (<<>> otherwise)
  audios          \* the Audio elements playAudio has created, when
                  \* lib/speech is studied on its own (<<>> otherwise)

vars == <<state, isRunningRef, loops, recognizers, recognitionRef,
          currentAudio, utterance, dispatched, lastCall, turns, args, returned,
          synthesisQueue, audios>>

NoUtterance == [owner |-> 0, text |-> <<>>]

\* positions of a loop: the await it is suspended at
\*   opening  await speak(OPENING_QUESTION)      (startInterview)
\*   capture  await startListening()             (runLoop)
\*   fetch    await fetch('/api/chat', ...)
\*   errJson  await res.json() of a non-ok response
\*   json     await res.json() of an ok response
\*   reply    await speak(data.reply)
\*   done     startInterview has returned
RoundPcs == {"capture", "fetch", "errJson", "json", "reply"}

\* live: the loop was started or has passed a run-flag check since the last
\* endInterview() (bookkeeping of the model, not read by any operation)
NewLoop ==
  [pc |-> "opening", finalTranscript |-> <<>>, duration |-> 0,
   request |-> <<>>, res |-> NoRes, live |-> TRUE]

NoRecognizer ==
  [status |-> "none", finalTranscript |-> <<>>]

\* the values an operation works on; historyRef is historyRef.current, the
\* history of the last render
Ctx ==
  [state |-> state, isRunningRef |-> isRunningRef, loops |-> loops,
   recognizers |-> recognizers, recognitionRef |-> recognitionRef,
   currentAudio |-> currentAudio,
   utterance |-> utterance, dispatched |-> <<>>, historyRef |-> state.history]

\* the number of turns a sequence of dispatched actions appends
Appended(ds) ==
  Cardinality({k \in DOMAIN ds : ds[k].type \in {"START_PROCESSING", "RECEIVE_RESPONSE"}})

Commit(c, call) ==
  /\ state' = c.state
  /\ isRunningRef' = c.isRunningRef
  /\ loops' = c.loops
  /\ recognizers' = c.recognizers
  /\ recognitionRef' = c.recognitionRef
  /\ currentAudio' = c.currentAudio
  /\ utterance' = c.utterance
  /\ dispatched' = c.dispatched
  /\ lastCall' = call
  /\ turns' = turns + Appended(c.dispatched)
  /\ UNCHANGED <<args, returned, synthesisQueue, audios>>

\* dispatch(action) by loop i (0: by endInterview) from the function site
dispatch(c, i, site, action) ==
  LET next == reducer(c.state, action)
  IN [c EXCEPT !.state = next,
               !.dispatched = Append(@,
                  [type |-> action.type, by |-> i, site |-> site,
                   stale |-> (i # 0 /\ ~c.loops[i].live),
                   from |-> c.state.phase, to |-> next.phase])]

\* ---- lib/speech ---------------------------------------------------------
\* speak(text) called by loop i: cancel(), then speak the new utterance
speak(c, i, text) == [c EXCEPT !.utterance = [owner |-> i, text |-> text]]

\* window.speechSynthesis.cancel()
cancelSpeech(c) == [c EXCEPT !.utterance = NoUtterance]

\* playAudio(src): the element that was playing is paused, a new one plays
playAudio(c) == [c EXCEPT !.currentAudio = 1]

stopAudio(c) == [c EXCEPT !.currentAudio = 0]

\* ---- useSpeechRecognition -------------------------------------------------
\* startListening() called by loop i, up to recognition.start()
startListening(c, i) ==
  [c EXCEPT !.recognizers[i] = [status |-> "active", finalTranscript |-> <<>>],
            !.recognitionRef = i]

stopListening(c) ==
  IF c.recognitionRef # 0
  THEN [c EXCEPT !.recognizers[c.recognitionRef].status = "stopping"]
  ELSE c

\* ---- useInterview ----------------------------------------------------------
Action(type) == [type |-> type]
StartProcessing(t) == [type |-> "START_PROCESSING", transcript |-> t]
UpdateTranscript(t) == [type |-> "UPDATE_TRANSCRIPT", transcript |-> t]
ReceiveResponse(reply, analysis, isOpening) ==
  [type |-> "RECEIVE_RESPONSE", reply |-> reply, analysis |-> analysis,
   isOpening |-> isOpening]
SetError(e) == [type |-> "SET_ERROR", error |-> e]

\* the loop has just read isRunningRef.current as true
passedCheck(c, i) == [c EXCEPT !.loops[i].live = TRUE]

\* startInterview() returns
finished(c, i) == [c EXCEPT !.loops[i] = [NewLoop EXCEPT !.pc = "done", !.live = FALSE]]

\* runLoop(), from its first line to await startListening()
runLoop(c, i) ==
  LET c1 == dispatch(c, i, "runLoop", Action("START_LISTENING"))
      c2 == startListening(c1, i)
  IN [c2 EXCEPT !.loops[i] = [NewLoop EXCEPT !.pc = "capture"]]

\* while (isRunningRef.current) { await runLoop(); }
whileLoop(c, i) ==
  IF c.isRunningRef THEN runLoop(passedCheck(c, i), i) ELSE finished(c, i)

\* runLoop, the catch of the try around the API call and the reply
runLoop_catch(c, i, message) ==
  LET c1 == stopAudio(c)
      c2 == dispatch(c1, i, "runLoop", SetError(message))
  IN whileLoop(c2, i)

\* variant of runLoop_listenFailed that ends the session on the failure
runLoop_listenFailed_clearsFlag(c, i, message) ==
  whileLoop([dispatch(c, i, "runLoop", SetError(message))
               EXCEPT !.isRunningRef = FALSE], i)

\* runLoop, the catch around await startListening()
runLoop_listenFailed(c, i, message) ==
  whileLoop(dispatch(c, i, "runLoop", SetError(message)), i)

\* variant of runLoop_listened that keeps the measured duration of a silent
\* capture
runLoop_listened_durationKept(c, i, transcript, duration) ==
  IF ~c.isRunningRef THEN whileLoop(c, i)
  ELSE
    LET silent == trim(transcript) = <<>>
        shown == IF silent THEN <<>> ELSE transcript
        finalTranscript == IF silent THEN SILENT_PLACEHOLDER ELSE transcript
        c1 == dispatch(passedCheck(c, i), i, "runLoop", UpdateTranscript(shown))
        c2 == dispatch(c1, i, "runLoop", StartProcessing(shown))
        c3 == playAudio(c2)
        messages == requestMessages(c3.historyRef, finalTranscript)
    IN [c3 EXCEPT !.loops[i] =
          [@ EXCEPT !.pc = "fetch", !.finalTranscript = finalTranscript,
                    !.duration = duration,
                    !.request = messages]]

\* variant of runLoop_listened that builds the request from the history the
\* reducer has just produced
runLoop_listened_windowAfterDispatch(c, i, transcript, duration) ==
  IF ~c.isRunningRef THEN whileLoop(c, i)
  ELSE
    LET silent == trim(transcript) = <<>>
        shown == IF silent THEN <<>> ELSE transcript
        finalTranscript == IF silent THEN SILENT_PLACEHOLDER ELSE transcript
        c1 == dispatch(passedCheck(c, i), i, "runLoop", UpdateTranscript(shown))
        c2 == dispatch(c1, i, "runLoop", StartProcessing(shown))
        c3 == playAudio(c2)
        messages == requestMessages(c3.state.history, finalTranscript)
    IN [c3 EXCEPT !.loops[i] =
          [@ EXCEPT !.pc = "fetch", !.finalTranscript = finalTranscript,
                    !.duration = IF silent THEN 0 ELSE duration,
                    !.request = messages]]

\* runLoop, from the resolution of startListening() to await fetch()
runLoop_listened(c, i, transcript, duration) ==
  IF ~c.isRunningRef THEN whileLoop(c, i)
  ELSE
    LET silent == trim(transcript) = <<>>
        shown == IF silent THEN <<>> ELSE transcript
        finalTranscript == IF silent THEN SILENT_PLACEHOLDER ELSE transcript
        c1 == dispatch(passedCheck(c, i), i, "runLoop", UpdateTranscript(shown))
        c2 == dispatch(c1, i, "runLoop", StartProcessing(shown))
        c3 == playAudio(c2)
        messages == requestMessages(c3.historyRef, finalTranscript)
    IN [c3 EXCEPT !.loops[i] =
          [@ EXCEPT !.pc = "fetch", !.finalTranscript = finalTranscript,
                    !.duration = IF silent THEN 0 ELSE duration,
                    !.request = messages]]

\* runLoop, from the resolution of fetch() to await res.json()
runLoop_fetched(c, i, res) ==
  IF ~c.isRunningRef THEN whileLoop(stopAudio(c), i)
  ELSE [passedCheck(c, i) EXCEPT !.loops[i] =
          [@ EXCEPT !.pc = IF res.status \in 200..299 THEN "json" ELSE "errJson",
                    !.res = res]]

\* variant of runLoop_data that does not dispatch START_SPEAKING
runLoop_data_phaseNotChanged(c, i, data) ==
  LET wpm == calculateWPM(c.loops[i].finalTranscript, c.loops[i].duration)
      analysis == [data.analysis EXCEPT !.pacing_wpm = wpm]
      c1 == dispatch(c, i, "runLoop", ReceiveResponse(data.reply, analysis, FALSE))
      c2 == stopAudio(c1)
      c4 == speak(c2, i, data.reply)
  IN [c4 EXCEPT !.loops[i] = [@ EXCEPT !.pc = "reply"]]

\* variant of runLoop_data that stores the analysis as the endpoint sent it
runLoop_data_pacingFromEndpoint(c, i, data) ==
  LET analysis == data.analysis
      c1 == dispatch(c, i, "runLoop", ReceiveResponse(data.reply, analysis, FALSE))
      c2 == stopAudio(c1)
      c3 == dispatch(c2, i, "runLoop", Action("START_SPEAKING"))
      c4 == speak(c3, i, data.reply)
  IN [c4 EXCEPT !.loops[i] = [@ EXCEPT !.pc = "reply"]]

\* runLoop, from const data = await res.json() to await speak(data.reply)
runLoop_data(c, i, data) ==
  LET wpm == calculateWPM(c.loops[i].finalTranscript, c.loops[i].duration)
      analysis == [data.analysis EXCEPT !.pacing_wpm = wpm]
      c1 == dispatch(c, i, "runLoop", ReceiveResponse(data.reply, analysis, FALSE))
      c2 == stopAudio(c1)
      c3 == dispatch(c2, i, "runLoop", Action("START_SPEAKING"))
      c4 == speak(c3, i, data.reply)
  IN [c4 EXCEPT !.loops[i] = [@ EXCEPT !.pc = "reply"]]

\* runLoop, after await speak(data.reply) has resolved
runLoop_spoken(c, i) ==
  IF ~c.isRunningRef THEN whileLoop(c, i)
  ELSE whileLoop(dispatch(passedCheck(c, i), i, "runLoop", Action("FINISH_SPEAKING")), i)

\* startInterview, after await speak(OPENING_QUESTION) has settled
startInterview_spoken(c, i) ==
  whileLoop(dispatch(c, i, "startInterview", Action("FINISH_SPEAKING")), i)

\* variant of startInterview_accepted that speaks the opening question
\* without storing it as a turn
startInterview_accepted_openingNotStored(c) ==
  LET i == Len(c.loops) + 1
      c0 == [c EXCEPT !.isRunningRef = TRUE,
                      !.loops = Append(@, NewLoop),
                      !.recognizers = Append(@, NoRecognizer)]
      c1 == dispatch(c0, i, "startInterview", Action("RESET"))
      c3 == dispatch(c1, i, "startInterview", Action("START_SPEAKING"))
  IN speak(c3, i, OPENING_QUESTION)

\* startInterview() past its guard, to await speak(OPENING_QUESTION)
startInterview_accepted(c) ==
  LET i == Len(c.loops) + 1
      c0 == [c EXCEPT !.isRunningRef = TRUE,
                      !.loops = Append(@, NewLoop),
                      !.recognizers = Append(@, NoRecognizer)]
      c1 == dispatch(c0, i, "startInterview", Action("RESET"))
      c2 == dispatch(c1, i, "startInterview",
                     ReceiveResponse(OPENING_QUESTION, EMPTY_METRICS, TRUE))
      c3 == dispatch(c2, i, "startInterview", Action("START_SPEAKING"))
  IN speak(c3, i, OPENING_QUESTION)

\* variant of startInterview without the guard on isRunningRef
startInterview_noGuard(c) == startInterview_accepted(c)

\* startInterview(), from its first line to await speak(OPENING_QUESTION)
startInterview(c) ==
  IF c.isRunningRef THEN c ELSE startInterview_accepted(c)

\* variant of endInterview that flips the run flag instead of clearing it
endInterview_togglesFlag(c) ==
  LET c0 == [c EXCEPT !.isRunningRef = ~@,
                      !.loops = [k \in DOMAIN @ |-> [@[k] EXCEPT !.live = FALSE]]]
      c1 == stopListening(c0)
      c2 == stopAudio(c1)
      c3 == cancelSpeech(c2)
  IN dispatch(c3, 0, "endInterview", Action("FINISH_SPEAKING"))

\* variant of endInterview that dispatches RESET
endInterview_resets(c) ==
  LET c0 == [c EXCEPT !.isRunningRef = FALSE,
                      !.loops = [k \in DOMAIN @ |-> [@[k] EXCEPT !.live = FALSE]]]
      c1 == stopListening(c0)
      c2 == stopAudio(c1)
      c3 == cancelSpeech(c2)
  IN dispatch(c3, 0, "endInterview", Action("RESET"))

endInterview(c) ==
  LET c0 == [c EXCEPT !.isRunningRef = FALSE,
                      !.loops = [k \in DOMAIN @ |-> [@[k] EXCEPT !.live = FALSE]]]
      c1 == stopListening(c0)
      c2 == stopAudio(c1)
      c3 == cancelSpeech(c2)
  IN dispatch(c3, 0, "endInterview", Action("FINISH_SPEAKING"))

\* ---- error messages ---------------------------------------------------------
CaptureErrorMessage(e) == <<"Speech recognition error: ", e>>
SpeechErrorMessage == <<"Speech error: ", "interrupted">>
FetchErrorMessage == <<"Failed to fetch">>
JsonErrorMessage == <<"Unexpected token in JSON">>
ApiErrorMessage(res) ==
  IF res.body.kind = "error" THEN <<res.body.error>> ELSE JsonErrorMessage

\* ---- actions ------------------------------------------------------------------
Loops == DOMAIN loops
\* lastCall tells the three commands of the hook from the events of the host
Call(op, i) ==
  IF op \in {"startInterview", "endInterview", "stopListening"} THEN op ELSE "event"

\* the hook as mounted: startInterview() has never been called
Mounted ==
  /\ state = initialState
  /\ isRunningRef = FALSE
  /\ loops = <<>>
  /\ recognizers = <<>>
  /\ recognitionRef = 0
  /\ currentAudio = 0
  /\ utterance = NoUtterance
  /\ dispatched = <<>>
  /\ lastCall = Call("none", 0)
  /\ turns = 0
  /\ synthesisQueue = <<>>
  /\ audios = <<>>

Init ==
  /\ Mounted
  /\ args = <<>>
  /\ returned = <<>>

\* the presentation layer calls startInterview()
StartInterview ==
  /\ isRunningRef \/ (Len(loops) < MaxLoops /\ turns < MaxTurns)
  /\ Commit(startInterview(Ctx), Call("startInterview", 0))

\* the presentation layer calls endInterview()
EndInterview ==
  Commit(endInterview(Ctx), Call("endInterview", 0))

\* the presentation layer calls stopListening() ("Done Speaking")
StopListening ==
  Commit(stopListening(Ctx), Call("stopListening", 0))

\* utterance.onend / utterance.onerror of the utterance loop i awaits
SpeechSettled(i, ok) ==
  /\ loops[i].pc \in {"opening", "reply"}
  /\ LET c == IF utterance.owner = i THEN cancelSpeech(Ctx) ELSE Ctx
     IN Commit(IF loops[i].pc = "opening" THEN startInterview_spoken(c, i)
               ELSE IF ok THEN runLoop_spoken(c, i)
               ELSE runLoop_catch(c, i, SpeechErrorMessage),
               Call("utterance event", i))

\* recognition.onresult: the finalized results now concatenate to t
RecognitionResult(i, t) ==
  /\ recognizers[i].status # "none"
  /\ Commit([Ctx EXCEPT !.recognizers[i].finalTranscript = t],
            Call("recognition.onresult", i))

\* recognition.onend of a pending capture, d milliseconds after onstart
RecognitionEnd(i, d) ==
  /\ recognizers[i].status # "none"
  /\ isRunningRef => turns < MaxTurns
  /\ LET c == [Ctx EXCEPT !.recognitionRef = 0,
                          !.recognizers[i] = NoRecognizer]
     IN Commit(runLoop_listened(c, i, recognizers[i].finalTranscript, d),
               Call("recognition.onend", i))

\* recognition.onerror of a pending capture
RecognitionError(i, e, d) ==
  /\ recognizers[i].status # "none"
  /\ (isRunningRef /\ e = "no-speech") => turns < MaxTurns
  /\ LET c == [Ctx EXCEPT !.recognitionRef = 0,
                          !.recognizers[i] = NoRecognizer]
     IN Commit(IF e = "no-speech" THEN runLoop_listened(c, i, <<>>, d)
               ELSE runLoop_listenFailed(c, i, CaptureErrorMessage(e)),
               Call("recognition.onerror", i))

\* fetch() resolves with the response of the route, or of the platform
FetchResolved(i, res) ==
  /\ loops[i].pc = "fetch"
  /\ Commit(runLoop_fetched(Ctx, i, res), Call("fetch resolved", i))

\* fetch() rejects
FetchRejected(i) ==
  /\ loops[i].pc = "fetch"
  /\ Commit(runLoop_catch(Ctx, i, FetchErrorMessage), Call("fetch rejected", i))

\* res.json() of an ok response resolves
JsonResolved(i) ==
  /\ loops[i].pc = "json"
  /\ loops[i].res.body.kind = "data"
  /\ turns < MaxTurns
  /\ Commit(runLoop_data(Ctx, i, loops[i].res.body), Call("json resolved", i))

\* res.json() of an ok response rejects (the body is cut or is not JSON)
JsonRejected(i) ==
  /\ loops[i].pc = "json"
  /\ Commit(runLoop_catch(Ctx, i, JsonErrorMessage), Call("json rejected", i))

\* res.json() of a non-ok response settles; either way the try block throws
ErrJsonSettled(i) ==
  /\ loops[i].pc = "errJson"
  /\ Commit(runLoop_catch(Ctx, i, ApiErrorMessage(loops[i].res)),
            Call("error json settled", i))

\* audio.onended of the element that is playing
ClipEnded ==
  /\ currentAudio # 0
  /\ Commit([Ctx EXCEPT !.currentAudio = 0], Call("audio.onended", 0))

\* audio.onerror of the element that is playing
ClipError ==
  /\ currentAudio # 0
  /\ Commit([Ctx EXCEPT !.currentAudio = 0], Call("audio.onerror", 0))

Next ==
  \/ StartInterview
  \/ EndInterview
  \/ StopListening
  \/ \E i \in Loops, ok \in BOOLEAN : SpeechSettled(i, ok)
  \/ \E i \in Loops, t \in CaptureTexts : RecognitionResult(i, t)
  \/ \E i \in Loops, d \in DurationsMs : RecognitionEnd(i, d)
  \/ \E i \in Loops, e \in CaptureErrors, d \in DurationsMs : RecognitionError(i, e, d)
  \/ \E i \in Loops, completion \in Completions :
        FetchResolved(i, POST(loops[i].request, completion))
  \/ \E i \in Loops : FetchResolved(i, PlatformFailure)
  \/ \E i \in Loops : FetchRejected(i)
  \/ \E i \in Loops : JsonResolved(i)
  \/ \E i \in Loops : JsonRejected(i)
  \/ \E i \in Loops : ErrJsonSettled(i)
  \/ ClipEnded
  \/ ClipError

Spec == Init /\ [][Next]_vars


\* ---- calculateWPM on its own ---------------------------------------------
hookVars == <<state, isRunningRef, loops, recognizers, recognitionRef,
              currentAudio, utterance, dispatched, lastCall, turns,
              synthesisQueue, audios>>

\* the acceptance case of the task list: calculateWPM("one two three four five", 3)
FiveWords == <<"one", " ", "two", " ", "three", " ", "four", " ", "five">>

\* every text of at most MaxTextLen elements, and the acceptance case
WPMTexts ==
  UNION { [1..k -> {"w", " "}] : k \in 0..MaxTextLen } \cup { FiveWords }

\* durations in milliseconds: negative, zero, and positive ones that make
\* the quotient exact, a tie (40000 for one word: 1.5) and neither
WPMDurationsMs == { -1000, 0, 1, 700, 1000, 3000, 7000, 40000 }

InitWPM ==
  /\ Mounted
  /\ args \in { <<t, d>> : t \in WPMTexts, d \in WPMDurationsMs }
  /\ returned = <<>>

\* the call calculateWPM(transcript, durationSeconds)
CalculateWPM ==
  /\ returned = <<>>
  /\ returned' = << calculateWPM(args[1], args[2]) >>
  /\ UNCHANGED <<args, hookVars>>

NextWPM == CalculateWPM

SpecWPM == InitWPM /\ [][NextWPM]_vars

\* ---- the messages of a request on their own -----------------------------
\* a history of n turns as the reducer stores it: the opening turn, then user
\* and assistant turns in alternation, the user turn at silentAt (if any)
\* holding the empty text of a silent round
StoredHistory(n, silentAt) ==
  [k \in 1..n |->
     [role |-> IF k % 2 = 1 THEN "assistant" ELSE "user",
      content |-> IF k = silentAt THEN <<>> ELSE <<"turn", ToString(k)>>]]

StoredHistories ==
  { StoredHistory(n, silentAt) : n \in 0..MaxHistory, silentAt \in {0, 2, 4} }

FinalTranscripts == { <<"one", " ", "two">>, <<"yes">>, SILENT_PLACEHOLDER }

InitRequest ==
  /\ Mounted
  /\ args \in { <<h, t>> : h \in StoredHistories, t \in FinalTranscripts }
  /\ returned = <<>>

\* runLoop builds the body of its request from historyRef.current
BuildRequest ==
  /\ returned = <<>>
  /\ returned' = << requestMessages(args[1], args[2]) >>
  /\ UNCHANGED <<args, hookVars>>

NextRequest == BuildRequest

SpecRequest == InitRequest /\ [][NextRequest]_vars

\* ---- the route on its own ---------------------------------------------------
\* A value of the JSON the remote model writes, as JSON.parse returns it: a
\* number (held in tenths, so that 72.6 is 726), a string, or undefined (the
\* key is missing).
JNumber(tenths) == [type |-> "number", value |-> tenths]
JString(str) == [type |-> "string", value |-> str]
JUndefined == [type |-> "undefined", value |-> 0]

\* the scores and tones a remote answer may carry
RemoteScores ==
  { JNumber(800), JNumber(726), JNumber(1500), JNumber(-50), JString("high"), JUndefined }
RemoteTones == { JString("casual"), JString("angry"), JUndefined }

\* parsed.analysis of a remote answer that has one
RemoteAnalyses ==
  [confidence_score : RemoteScores, pacing_wpm : {JNumber(0)},
   clarity_score : {JNumber(700), JString("good")}, tone : RemoteTones,
   feedback_text : {JString("Use the STAR method.")}]

\* what the completion call may produce, the content it parses to included
RemoteAnswers ==
  { [kind |-> k] : k \in {"throws", "nocontent", "badjson"} }
  \cup [kind : {"parsed"}, replyIsString : BOOLEAN, hasAnalysis : {TRUE},
         reply : {<<"Can you give a concrete example?">>}, analysis : RemoteAnalyses]
  \cup [kind : {"parsed"}, replyIsString : BOOLEAN, hasAnalysis : {FALSE},
         reply : {<<"Can you give a concrete example?">>}, analysis : {JUndefined}]

\* body.messages: a well-formed array, and one with an empty content
RouteMessages ==
  { <<[role |-> "user", content |-> <<"one", " ", "two">>]>>,
    <<[role |-> "assistant", content |-> OPENING_QUESTION],
      [role |-> "user", content |-> <<>>]>> }

VALID_TONES == {"professional", "uncertain", "casual", "aggressive"}

mathMax(a, b) == IF a >= b THEN a ELSE b
mathMin(a, b) == IF a <= b THEN a ELSE b
\* Math.round of a number held in tenths
mathRound(tenths) == (tenths + 5) \div 10

\* clampScore of the second version of the route (part_004)
clampScore(value, min, max) ==
  IF value.type # "number" THEN 0
  ELSE mathMax(min, mathMin(max, mathRound(value.value)))

sanitizeAnalysis(raw) ==
  [confidence_score |-> clampScore(raw.confidence_score, 0, 100),
   pacing_wpm |-> 0,
   clarity_score |-> clampScore(raw.clarity_score, 0, 100),
   tone |-> IF raw.tone.type = "string" /\ raw.tone.value \in VALID_TONES
            THEN raw.tone.value ELSE "professional",
   feedback_text |-> IF raw.feedback_text.type = "string"
                     THEN raw.feedback_text.value ELSE ""]

\* the POST handler of the second version of the route (part_004): it
\* sanitizes the analysis and answers 502 or 500 where route.ts falls back
sanitizingPOST(messages, completion) ==
  CASE completion.kind = "throws" -> Json(500, ErrorBody("Unknown error"))
    [] completion.kind = "nocontent" -> Json(502, ErrorBody("No response from OpenAI"))
    [] completion.kind = "badjson" -> Json(502, ErrorBody("OpenAI returned invalid JSON"))
    [] completion.kind = "parsed" ->
         IF ~completion.replyIsString \/ ~completion.hasAnalysis
         THEN Json(502, ErrorBody("Invalid response structure from OpenAI"))
         ELSE Json(200, DataBody([reply |-> completion.reply,
                                  analysis |-> sanitizeAnalysis(completion.analysis)]))

InitRoute ==
  /\ Mounted
  /\ args \in { <<m, c>> : m \in RouteMessages, c \in RemoteAnswers }
  /\ returned = <<>>

\* a request reaches app/api/chat/route.ts
Post ==
  /\ returned = <<>>
  /\ returned' = << "route.ts", POST(args[1], args[2]) >>
  /\ UNCHANGED <<args, hookVars>>

\* a request reaches the second version of the route
SanitizingPost ==
  /\ returned = <<>>
  /\ returned' = << "part_004", sanitizingPOST(args[1], args[2]) >>
  /\ UNCHANGED <<args, hookVars>>

NextRoute == Post \/ SanitizingPost

SpecRoute == InitRoute /\ [][NextRoute]_vars

\* ---- one session, the remote model answering out of contract ------------
\* an answer the remote model may give: well-formed JSON of the right types
\* whose scores are outside 0..100 and whose tone is none of the four
OutOfContract ==
  [kind |-> "parsed", replyIsString |-> TRUE, hasAnalysis |-> TRUE,
   reply |-> <<"Tell me more.">>,
   analysis |-> [confidence_score |-> 150, pacing_wpm |-> 0, clarity_score |-> -5,
                 tone |-> "angry", feedback_text |-> "Slow down."]]

\* the steps of a session that endInterview() does not interrupt and whose
\* adapters do not fail
NextSession ==
  \/ StartInterview
  \/ StopListening
  \/ \E i \in Loops : SpeechSettled(i, TRUE)
  \/ \E i \in Loops, t \in CaptureTexts : RecognitionResult(i, t)
  \/ \E i \in Loops, d \in DurationsMs : RecognitionEnd(i, d)
  \/ \E i \in Loops, completion \in Completions \cup {OutOfContract} :
        FetchResolved(i, POST(loops[i].request, completion))
  \/ \E i \in Loops : JsonResolved(i)
  \/ \E i \in Loops : ErrJsonSettled(i)
  \/ ClipEnded

SpecSession == Init /\ [][NextSession]_vars

\* the same session when every operation the loop awaits settles in the end:
\* the utterance ends, the capture ends, the endpoint answers and the body
\* of its answer is read.  Nothing is assumed about the filler clip, nor
\* about the commands of the presentation layer.
SessionFairness ==
  /\ WF_vars(\E i \in Loops : SpeechSettled(i, TRUE))
  /\ WF_vars(\E i \in Loops, d \in DurationsMs : RecognitionEnd(i, d))
  /\ WF_vars(\E i \in Loops, completion \in Completions \cup {OutOfContract} :
               FetchResolved(i, POST(loops[i].request, completion)))
  /\ WF_vars(\E i \in Loops : JsonResolved(i))
  /\ WF_vars(\E i \in Loops : ErrJsonSettled(i))

SpecLive == Init /\ [][NextSession]_vars /\ SessionFairness

\* ---- useSpeechRecognition on its own -------------------------------------
\* One caller awaits startListening() and calls it again once the promise
\* has settled, as runLoop does; stopListening() may be called at any time.
\* args is <<supported>> (whether the host has SpeechRecognition),
\* recognizers has one entry per recognizer created, returned is the
\* settlement of the promise of the last call (<<>> while it is pending).
\* A recognizer that fired onerror fires onend afterwards (status errored
\* in between), as the Web Speech API prescribes.
UnsupportedMessage == <<"SpeechRecognition not supported in this browser.">>

resolved(transcript, duration) == <<"resolved", transcript, duration>>
rejected(message) == <<"rejected", message>>

\* variant of onerror that treats 'no-speech' like every other error
onerror_noSpeechRejects(error, duration) == rejected(CaptureErrorMessage(error))

\* what recognition.onerror settles the promise with
onerror(error, duration) ==
  IF error = "no-speech" THEN resolved(<<>>, duration)
  ELSE rejected(CaptureErrorMessage(error))

\* what recognition.onend settles the promise with
onend(finalTranscript, duration) == resolved(finalTranscript, duration)

captureFrame == <<state, isRunningRef, loops, currentAudio, utterance,
                  dispatched, turns, args, synthesisQueue, audios>>

InitCapture ==
  /\ state = initialState
  /\ isRunningRef = FALSE
  /\ loops = <<>>
  /\ recognizers = <<>>
  /\ recognitionRef = 0
  /\ currentAudio = 0
  /\ utterance = NoUtterance
  /\ dispatched = <<>>
  /\ lastCall = "mount"
  /\ turns = 0
  /\ synthesisQueue = <<>>
  /\ audios = <<>>
  /\ args \in { <<supported>> : supported \in BOOLEAN }
  /\ returned = <<>>

\* startListening(), the executor of the promise it returns
CaptureStart ==
  /\ lastCall = "mount" \/ returned # <<>>
  /\ Len(recognizers) < MaxCalls
  /\ lastCall' = "startListening"
  /\ IF args[1]
     THEN LET k == Len(recognizers) + 1
              c == startListening([Ctx EXCEPT !.recognizers = Append(@, NoRecognizer)], k)
          IN /\ recognizers' = c.recognizers
             /\ recognitionRef' = c.recognitionRef
             /\ returned' = <<>>
     ELSE /\ returned' = rejected(UnsupportedMessage)
          /\ UNCHANGED <<recognizers, recognitionRef>>
  /\ UNCHANGED captureFrame

CaptureStop ==
  /\ lastCall # "mount"
  /\ LET c == stopListening(Ctx)
     IN /\ recognizers' = c.recognizers
        /\ recognitionRef' = c.recognitionRef
  /\ lastCall' = "stopListening"
  /\ UNCHANGED <<returned, captureFrame>>

\* recognition.onresult of recognizer k
CaptureResult(k, t) ==
  /\ recognizers[k].status \in {"active", "stopping"}
  /\ recognizers' = [recognizers EXCEPT ![k].finalTranscript = t]
  /\ lastCall' = "recognition.onresult"
  /\ UNCHANGED <<recognitionRef, returned, captureFrame>>

\* recognition.onend of recognizer k: resolve() has an effect only on a
\* promise that is still pending
CaptureEnd(k, d) ==
  /\ recognizers[k].status # "none"
  /\ recognitionRef' = 0
  /\ returned' = IF recognizers[k].status = "errored" THEN returned
                 ELSE onend(recognizers[k].finalTranscript, d)
  /\ recognizers' = [recognizers EXCEPT ![k] = NoRecognizer]
  /\ lastCall' = "recognition.onend"
  /\ UNCHANGED captureFrame

\* recognition.onerror of recognizer k
CaptureError(k, e, d) ==
  /\ recognizers[k].status \in {"active", "stopping"}
  /\ recognitionRef' = 0
  /\ returned' = onerror(e, d)
  /\ recognizers' = [recognizers EXCEPT ![k].status = "errored"]
  /\ lastCall' = "recognition.onerror"
  /\ UNCHANGED captureFrame

NextCapture ==
  \/ CaptureStart
  \/ CaptureStop
  \/ \E k \in DOMAIN recognizers, t \in CaptureTexts : CaptureResult(k, t)
  \/ \E k \in DOMAIN recognizers, d \in DurationsMs : CaptureEnd(k, d)
  \/ \E k \in DOMAIN recognizers, e \in CaptureErrors, d \in DurationsMs :
        CaptureError(k, e, d)

SpecCapture == InitCapture /\ [][NextCapture]_vars

\* ---- speak() of lib/speech on its own --------------------------------------
\* window.speechSynthesis keeps a queue of utterances and speaks its head.
\* synthesisQueue is that queue, an utterance being the number of the speak()
\* call that made it; returned[u] is what has become of utterance u and of
\* the promise speak() returned for it: "queued", "cancelled" (taken off the
\* queue, its event still to come), "resolved" or "rejected".  args says
\* whether the host has speechSynthesis at all.
synthesisCancel(queue) == <<>>

synthesisSpeak(queue, u) == Append(queue, u)

speakOnHost_noCancel(queue, u) == synthesisSpeak(queue, u)

speakOnHost(queue, u) == synthesisSpeak(synthesisCancel(queue), u)

\* the utterances a call takes off the queue wait for their last event
Interrupted(settled, before, after) ==
  [u \in DOMAIN settled |->
     IF /\ \E j \in DOMAIN before : before[j] = u
        /\ ~ \E j \in DOMAIN after : after[j] = u
     THEN "cancelled" ELSE settled[u]]

speechFrame == <<state, isRunningRef, loops, recognizers, recognitionRef,
                 currentAudio, utterance, dispatched, lastCall, turns, args,
                 audios>>

InitSpeech ==
  /\ Mounted
  /\ args \in { <<TRUE>>, <<FALSE>> }
  /\ returned = <<>>

Speak ==
  /\ Len(returned) < MaxSpeaks
  /\ LET u == Len(returned) + 1
     IN IF args[1]
        THEN /\ synthesisQueue' = speakOnHost(synthesisQueue, u)
             /\ returned' = Append(Interrupted(returned, synthesisQueue,
                                               synthesisQueue'), "queued")
        ELSE /\ returned' = Append(returned, "rejected")
             /\ UNCHANGED synthesisQueue
  /\ UNCHANGED speechFrame

\* window.speechSynthesis.cancel() as endInterview() calls it
CancelSpeech ==
  /\ synthesisQueue # <<>>
  /\ synthesisQueue' = synthesisCancel(synthesisQueue)
  /\ returned' = Interrupted(returned, synthesisQueue, synthesisQueue')
  /\ UNCHANGED speechFrame

UtteranceEnd(u) ==
  /\ synthesisQueue # <<>>
  /\ u = Head(synthesisQueue)
  /\ synthesisQueue' = Tail(synthesisQueue)
  /\ returned' = [returned EXCEPT ![u] = "resolved"]
  /\ UNCHANGED speechFrame

UtteranceError(u) ==
  /\ synthesisQueue # <<>>
  /\ u = Head(synthesisQueue)
  /\ synthesisQueue' = Tail(synthesisQueue)
  /\ returned' = [returned EXCEPT ![u] = "rejected"]
  /\ UNCHANGED speechFrame

\* the last event of a cancelled utterance: error on some hosts, end on others
UtteranceInterrupted(u, asEnd) ==
  /\ returned[u] = "cancelled"
  /\ returned' = [returned EXCEPT ![u] = IF asEnd THEN "resolved"
                                                 ELSE "rejected"]
  /\ UNCHANGED <<synthesisQueue, speechFrame>>

NextSpeech ==
  \/ Speak
  \/ CancelSpeech
  \/ \E u \in 1..MaxSpeaks : UtteranceEnd(u)
  \/ \E u \in 1..MaxSpeaks : UtteranceError(u)
  \/ \E u \in DOMAIN returned, asEnd \in BOOLEAN : UtteranceInterrupted(u, asEnd)

SpecSpeech == InitSpeech /\ [][NextSpeech]_vars

\* ---- playAudio() and stopAudio() of lib/speech on their own ---------------
\* audios[k] is the Audio element the k-th playAudio() call created:
\* "playing" from audio.play() on, "paused" once the module paused it,
\* "blocked" when the host rejected play(), "ended" after its ended event,
\* "failed" after its error event.  currentAudio is 0 for null, else the
\* element it refers to.  The host can still report a load error for an
\* element that is paused or blocked; ended comes from a playing one only.
pauseCurrent(elements, current) ==
  IF current # 0 /\ elements[current] = "playing"
  THEN [elements EXCEPT ![current] = "paused"]
  ELSE elements

audio_onended(current, k) == 0

audio_onerror(current, k) == 0

audioFrame == <<state, isRunningRef, loops, recognizers, recognitionRef,
                utterance, dispatched, lastCall, turns, args, returned,
                synthesisQueue>>

PlayAudio ==
  /\ Len(audios) < MaxClips
  /\ audios' = Append(pauseCurrent(audios, currentAudio), "playing")
  /\ currentAudio' = Len(audios) + 1
  /\ UNCHANGED audioFrame

StopAudio ==
  /\ currentAudio # 0
  /\ audios' = pauseCurrent(audios, currentAudio)
  /\ currentAudio' = 0
  /\ UNCHANGED audioFrame

AudioEnded(k) ==
  /\ audios[k] = "playing"
  /\ audios' = [audios EXCEPT ![k] = "ended"]
  /\ currentAudio' = audio_onended(currentAudio, k)
  /\ UNCHANGED audioFrame

AudioError(k) ==
  /\ audios[k] \in { "playing", "paused", "blocked" }
  /\ audios' = [audios EXCEPT ![k] = "failed"]
  /\ currentAudio' = audio_onerror(currentAudio, k)
  /\ UNCHANGED audioFrame

\* audio.play() rejects (autoplay policy): the catch only resolves the promise
PlayRejected(k) ==
  /\ audios[k] = "playing"
  /\ audios' = [audios EXCEPT ![k] = "blocked"]
  /\ UNCHANGED <<currentAudio, audioFrame>>

NextAudio ==
  \/ PlayAudio
  \/ StopAudio
  \/ \E k \in DOMAIN audios : AudioEnded(k)
  \/ \E k \in DOMAIN audios : AudioError(k)
  \/ \E k \in DOMAIN audios : PlayRejected(k)

SpecAudio == Init /\ [][NextAudio]_vars

\* ---- properties ----------------------------------------------------------
\* the Audio elements that are playing
Playing == { k \in DOMAIN audios : audios[k] = "playing" }

\* C21: the host never holds more than one utterance of speak(): each call
\* empties the queue before it queues its own, so whatever is queued or
\* spoken is the utterance of the most recent call, and every earlier one
\* has been taken off the queue.
C21_OneUtterance ==
  /\ Len(synthesisQueue) <= 1
  /\ \A j \in DOMAIN synthesisQueue : synthesisQueue[j] = Len(returned)
  /\ \A u \in DOMAIN returned : u < Len(returned) => returned[u] # "queued"

\* a speak() call has interrupted the utterance of the call before it
C21_Witness ==
  /\ Len(returned) >= 2
  /\ returned[1] = "cancelled"
  /\ synthesisQueue = <<2>>

\* C22: at most one filler clip is playing, currentAudio refers to the clip
\* that is playing and is null when none is, and an event of a clip that
\* currentAudio does not refer to leaves currentAudio as it is.
C22_CurrentAudioIsThePlayingClip ==
  /\ [](/\ Cardinality(Playing) <= 1
        /\ \A k \in Playing : currentAudio = k
        /\ Playing = {} => currentAudio = 0)
  /\ [][\A k \in DOMAIN audios :
          (k # currentAudio /\ (AudioEnded(k) \/ AudioError(k)))
             => currentAudio' = currentAudio]_vars

\* the part of C22 about late events alone
C22_LateEventKeepsReference ==
  [][\A k \in DOMAIN audios :
       (k # currentAudio /\ (AudioEnded(k) \/ AudioError(k)))
          => currentAudio' = currentAudio]_vars

\* the part of C22 about clips that play unreferenced
C22_PlayingClipIsReferenced ==
  /\ Cardinality(Playing) <= 1
  /\ \A k \in Playing : currentAudio = k

IsPrefix(s, t) == Len(s) <= Len(t) /\ SubSeq(t, 1, Len(s)) = s

AssistantTurns(h, from) == {k \in from..Len(h) : h[k].role = "assistant"}

OpeningTurn == [role |-> "assistant", content |-> OPENING_QUESTION]

\* a step in which startInterview() was accepted
AcceptedStart == dispatched' # <<>> /\ dispatched'[1].type = "RESET"

\* C1: once endInterview() has cleared the run flag, and until the next
\* accepted startInterview(), phase is idle and history, stats and allStats
\* do not change, however the suspended operations settle.
C1_EndFreezesSession ==
  [][~isRunningRef' =>
       /\ state'.phase = "idle"
       /\ ~isRunningRef =>
            /\ state'.history = state.history
            /\ state'.stats = state.stats
            /\ state'.allStats = state.allStats]_vars

\* C2: a loop that resumes after endInterview() dispatches nothing from
\* runLoop: every action dispatched by runLoop comes from a loop that has
\* seen the run flag true since the last endInterview().
C2_NoDispatchAfterEnd ==
  \A k \in DOMAIN dispatched :
     dispatched[k].site = "runLoop" => ~dispatched[k].stale

\* loop i is executing a round it entered, or went on with, under a true flag
InRound(i) == loops[i].pc \in RoundPcs /\ loops[i].live

\* C3: at most one loop is executing a round at any time.
C3_AtMostOneRound == Cardinality({i \in Loops : InRound(i)}) <= 1

\* C4: startInterview() while the run flag is true dispatches nothing, leaves
\* the session state and the flag unchanged, starts no speech and no loop.
C4_StartWhileRunningIsNoop ==
  [][(isRunningRef /\ lastCall' = "startInterview") =>
       /\ dispatched' = <<>>
       /\ UNCHANGED <<state, isRunningRef, loops, recognizers, recognitionRef,
                      currentAudio, utterance, turns>>]_vars

C4_Witness ==
  /\ lastCall = "startInterview"
  /\ dispatched = <<>>
  /\ isRunningRef
  /\ state.phase = "processing"

\* C5: an accepted startInterview() leaves exactly the fresh session state:
\* phase speaking, the opening turn as the whole history, no metrics, the
\* all-zero placeholder as stats, no error and an empty transcript.
C5_StartResets ==
  [][(~isRunningRef /\ lastCall' = "startInterview") =>
       state' = [phase |-> "speaking", transcript |-> <<>>,
                 history |-> <<OpeningTurn>>, stats |-> EMPTY_METRICS,
                 allStats |-> <<>>, error |-> NoError]]_vars

\* the second session has just started over a first one that had a reply
C5_Witness ==
  /\ lastCall = "startInterview"
  /\ dispatched # <<>>
  /\ Len(loops) = 2
  /\ loops[1].pc = "reply"
  /\ state.history = <<OpeningTurn>>

PhaseTable ==
  { <<"speaking", "idle">>, <<"idle", "listening">>, <<"listening", "processing">>,
    <<"listening", "idle">>, <<"processing", "speaking">>, <<"processing", "idle">> }

C7_AllStatsCountsReplies ==
  /\ state.history # <<>> => state.history[1] = OpeningTurn
  /\ Len(state.allStats) = Cardinality(AssistantTurns(state.history, 2))

C7_Witness ==
  /\ Len(state.allStats) = 2
  /\ Len(state.history) = 5

\* no endInterview() so far: the only loop has seen the flag true ever since
CleanSession == Len(loops) = 1 /\ loops[1].live

\* C8: while no endInterview() has been called, no step removes or changes
\* an entry of history, and a round appends exactly two entries: the step
\* that ends the capture appends the user turn, the step that receives the
\* answer of the endpoint appends the assistant turn right after it, and no
\* other step of the round touches history.
C8_RoundAppendsTwo ==
  [][(CleanSession /\ CleanSession') =>
       LET h == state.history
           h2 == state'.history
           pc == loops[1].pc
           pc2 == loops'[1].pc
       IN /\ IsPrefix(h, h2)
          /\ (pc = "capture" /\ pc2 = "fetch") =>
                Len(h2) = Len(h) + 1 /\ h2[Len(h2)].role = "user"
          /\ (pc = "json" /\ pc2 = "reply") =>
                /\ Len(h2) = Len(h) + 1
                /\ h[Len(h)].role = "user"
                /\ h2[Len(h2)].role = "assistant"
          /\ ~(pc = "capture" /\ pc2 = "fetch") /\ ~(pc = "json" /\ pc2 = "reply")
                => h2 = h]_vars

\* the second successful round of a session has just completed
C8_Witness ==
  /\ CleanSession
  /\ loops[1].pc = "reply"
  /\ Len(state.history) = 5
  /\ \A k \in 1..5 : state.history[k].role = IF k \in {2, 4} THEN "user" ELSE "assistant"

\* C9: a step other than an accepted startInterview() keeps history as a
\* prefix of the new history and adds at most one entry.
C9_AppendOnly ==
  [][~AcceptedStart =>
       /\ IsPrefix(state.history, state'.history)
       /\ Len(state'.history) <= Len(state.history) + 1]_vars

\* a loop cancelled by endInterview() has appended to the history of the
\* next session
C9_Witness ==
  /\ Len(loops) = 2
  /\ Len(state.history) >= 2
  /\ \E k \in DOMAIN dispatched :
        dispatched[k].by = 1 /\ dispatched[k].type = "RECEIVE_RESPONSE"

LastTurn == state.history[Len(state.history)]

\* C10 as stated: phase is neither processing nor idle while the history ends
\* with the reply of a round whose playback is still awaited.
C10_NoReplyBeforeSpeaking ==
  ~ /\ state.phase \in {"processing", "idle"}
    /\ Len(state.history) > 1
    /\ LastTurn.role = "assistant"
    /\ \E i \in Loops : loops[i].pc = "reply"

\* C10 amended: phase is never processing while the history ends with an
\* assistant turn: the reply is appended and the phase becomes speaking in
\* one state change.
C10_ReplyAndSpeakingAtomic ==
  state.phase = "processing" =>
    (state.history # <<>> /\ LastTurn.role = "user")

\* a reply has just been appended and the phase changed with it
C10_Witness ==
  /\ state.phase = "speaking"
  /\ Len(dispatched) = 2
  /\ dispatched[1].type = "RECEIVE_RESPONSE"
  /\ dispatched[1].from = "processing"
  /\ dispatched[2].type = "START_SPEAKING"
  /\ LastTurn.role = "assistant"

\* C11: a round whose capture is silent (its text is empty or whitespace
\* only) appends one user turn, with empty content, in the step that ends the
\* capture, and when the answer of the endpoint arrives that step appends one
\* assistant turn and one metrics object whose pacing_wpm is 0, which also
\* becomes stats.
C11_SilentRound ==
  [][\A i \in Loops :
       /\ (loops[i].pc = "capture" /\ loops'[i].pc = "fetch") =>
            /\ trim(recognizers[i].finalTranscript) = <<>> =>
                 loops'[i].finalTranscript = SILENT_PLACEHOLDER
            /\ loops'[i].finalTranscript = SILENT_PLACEHOLDER =>
                 state'.history = Append(state.history, [role |-> "user", content |-> <<>>])
       /\ (loops[i].pc = "json" /\ loops'[i].pc = "reply"
            /\ loops[i].finalTranscript = SILENT_PLACEHOLDER) =>
            /\ Len(state'.history) = Len(state.history) + 1
            /\ IsPrefix(state.history, state'.history)
            /\ LastTurn'.role = "assistant"
            /\ Len(state'.allStats) = Len(state.allStats) + 1
            /\ IsPrefix(state.allStats, state'.allStats)
            /\ state'.allStats[Len(state'.allStats)].pacing_wpm = 0
            /\ state'.stats.pacing_wpm = 0]_vars

\* the reply to a silent round of an uninterrupted session has arrived
C11_Witness ==
  /\ CleanSession
  /\ loops[1].pc = "reply"
  /\ loops[1].finalTranscript = SILENT_PLACEHOLDER
  /\ Len(state.history) = 3
  /\ state.history[2] = [role |-> "user", content |-> <<>>]
  /\ state.history[3].role = "assistant"
  /\ Len(state.allStats) = 1
  /\ state.allStats[1].pacing_wpm = 0

\* the number of whitespace-separated words of t: the elements that begin a
\* run of non-whitespace elements
Words(t) ==
  Cardinality({k \in 1..Len(t) : t[k] # " " /\ (k = 1 \/ t[k - 1] = " ")})

\* C12: calculateWPM returns 0 when the text has no word or the duration is
\* not positive; otherwise it returns an integer at distance at most 1/2 from
\* 60 * words / seconds; for five words in three seconds it returns 100.
C12_PacingIsNearestInteger ==
  returned # <<>> =>
    LET t == args[1]
        ms == args[2]
        r == returned[1]
    IN /\ r \in Int
       /\ (Words(t) = 0 \/ ms <= 0) => r = 0
       /\ (Words(t) > 0 /\ ms > 0) =>
            /\ 2 * (r * ms - 60000 * Words(t)) <= ms
            /\ 2 * (60000 * Words(t) - r * ms) <= ms
       /\ (t = FiveWords /\ ms = 3000) => r = 100

C12_Witness ==
  /\ args = <<FiveWords, 3000>>
  /\ returned = <<100>>

\* the analysis call of loop i fails in this step: fetch() rejects, the body
\* of an ok response does not parse, or the response is not ok
AnalysisFails(i) == FetchRejected(i) \/ JsonRejected(i) \/ ErrJsonSettled(i)

\* C13: when the analysis call of a running session fails, the step appends
\* the fixed fallback reply as the assistant turn, records the neutral
\* fallback metrics, goes on to phase speaking and sets no error.
C13_FailureBecomesFallback ==
  [][\A i \in Loops :
       (isRunningRef /\ loops[i].live /\ AnalysisFails(i)) =>
          /\ state'.history =
               Append(state.history,
                      [role |-> "assistant", content |-> FALLBACK_RESPONSE.reply])
          /\ state'.stats.confidence_score = FALLBACK_RESPONSE.analysis.confidence_score
          /\ state'.stats.clarity_score = FALLBACK_RESPONSE.analysis.clarity_score
          /\ state'.stats.tone = FALLBACK_RESPONSE.analysis.tone
          /\ state'.phase = "speaking"
          /\ state'.error = NoError]_vars

\* the remote answer parsed to an object whose reply is a string but which
\* has no analysis, or an analysis whose confidence_score is not a number
UntrustedAnalysis(completion) ==
  /\ completion.kind = "parsed"
  /\ completion.replyIsString
  /\ ~completion.hasAnalysis \/ completion.analysis.confidence_score.type # "number"

\* C14: for a well-formed request and a remote answer that lacks the
\* analysis object or whose confidence_score is not a number, the route
\* (app/api/chat/route.ts) answers 200 with the fixed fallback reply and the
\* fallback metrics (confidence 50, clarity 50, tone professional).
C14_UntrustedAnalysisFallsBack ==
  (returned # <<>> /\ returned[1] = "route.ts"
   /\ args[1] = <<[role |-> "user", content |-> <<"one", " ", "two">>]>>
   /\ UntrustedAnalysis(args[2])) =>
     /\ returned[2].status = 200
     /\ returned[2].body.kind = "data"
     /\ returned[2].body.reply = FALLBACK_RESPONSE.reply
     /\ returned[2].body.analysis = FALLBACK_RESPONSE.analysis

InContract(metrics) ==
  /\ metrics.confidence_score \in 0..100
  /\ metrics.clarity_score \in 0..100
  /\ metrics.tone \in VALID_TONES

\* C15: stats and every element of allStats have a confidence_score and a
\* clarity_score that are integers of 0..100 and a tone that is one of
\* professional, uncertain, casual, aggressive.
C15_MetricsInContract ==
  /\ InContract(state.stats)
  /\ \A k \in DOMAIN state.allStats : InContract(state.allStats[k])

\* C16: while the run flag is false (after endInterview() and until the next
\* accepted startInterview(), and before the first one) no filler clip is
\* playing, no utterance is being spoken and no recognizer is capturing.
C16_NothingRunsAfterEnd ==
  ~isRunningRef =>
     /\ currentAudio = 0
     /\ utterance = NoUtterance
     /\ \A i \in Loops : recognizers[i].status # "active"

\* C17: endInterview() called right after endInterview() changes nothing: the
\* session state, the run flag, the loops, the recognizers, the filler clip
\* and the utterance stay as the first call left them; and endInterview()
\* before any startInterview() leaves the session state at initialState.
C17_EndIsIdempotent ==
  [][/\ (lastCall = "endInterview" /\ lastCall' = "endInterview") =>
          UNCHANGED <<state, isRunningRef, loops, recognizers, recognitionRef,
                      currentAudio, utterance>>
     /\ (loops = <<>> /\ lastCall' = "endInterview") =>
          (state' = initialState /\ ~isRunningRef')]_vars

\* endInterview() was called in a state an earlier endInterview() left: the
\* only loop is still suspended in its capture, its recognizer stopping, and
\* phase was idle already
C17_Witness ==
  /\ lastCall = "endInterview"
  /\ dispatched[1].from = "idle"
  /\ Len(loops) = 1
  /\ loops[1].pc = "capture"
  /\ recognizers[1].status = "stopping"

\* C18: no recognizer is capturing while an utterance is being spoken.
C18_CaptureXorSpeech ==
  ~ /\ utterance # NoUtterance
    /\ \E i \in Loops : recognizers[i].status = "active"

\* C19: the loop begins no round while the run flag is false, and it begins
\* no further round after a capture error other than 'no-speech': the step
\* in which the capture fails starts no capture and ends the loop.
C19_LoopStopsOnEndOrError ==
  [][\A i \in Loops :
       /\ (~isRunningRef /\ ~isRunningRef' /\ loops'[i].pc = "capture") =>
            loops[i].pc = "capture"
       /\ (isRunningRef /\ loops[i].live
            /\ \E d \in DurationsMs : RecognitionError(i, "not-allowed", d)) =>
            /\ loops'[i].pc = "done"
            /\ recognizers'[i].status = "none"]_vars

\* C20: the promise of startListening() settles by the outcome of the
\* capture.  On a host without SpeechRecognition it is rejected by the call
\* itself and no recognizer is created.  While it is pending, onerror with
\* 'no-speech' resolves it with the empty text, onerror with another error
\* rejects it with a message naming the error, and onend of its recognizer
\* (natural end or stop()) resolves it with the text finalized so far; once
\* settled it does not change until the next call.
C20_CaptureSettles ==
  [][/\ (lastCall' = "startListening" /\ ~args[1]) =>
          /\ returned' = <<"rejected", UnsupportedMessage>>
          /\ UNCHANGED <<recognizers, recognitionRef>>
     /\ \A k \in DOMAIN recognizers, d \in DurationsMs :
          /\ (returned = <<>> /\ CaptureError(k, "no-speech", d)) =>
               returned' = <<"resolved", <<>>, d>>
          /\ (returned = <<>> /\ CaptureError(k, "not-allowed", d)) =>
               returned' = <<"rejected", <<"Speech recognition error: ", "not-allowed">>>>
          /\ (recognizers[k].status \in {"active", "stopping"} /\ CaptureEnd(k, d)) =>
               returned' = <<"resolved", recognizers[k].finalTranscript, d>>
     /\ (returned # <<>> /\ lastCall' # "startListening") =>
          returned' = returned]_vars

\* the second capture ended with finalized text and its promise resolved
\* with that text
C20_Witness ==
  /\ lastCall = "recognition.onend"
  /\ returned = <<"resolved", <<"one", " ", "two">>, 3000>>
  /\ Len(recognizers) = 2

\* C23: the step that ends a silent capture (its text is empty or whitespace
\* only) appends a user turn whose content is the placeholder marking
\* silence, the text the request of that round carries as its last message.
C23_SilentTurnCarriesPlaceholder ==
  [][\A i \in Loops :
       (/\ loops[i].pc = "capture" /\ loops'[i].pc = "fetch"
        /\ trim(recognizers[i].finalTranscript) = <<>>) =>
          LET request == loops'[i].request
          IN /\ request[Len(request)].content = SILENT_PLACEHOLDER
             /\ state'.history =
                  Append(state.history, [role |-> "user",
                                         content |-> SILENT_PLACEHOLDER])]_vars

\* C24: the messages of a request are the last 10 entries of the history (all
\* of them when it has fewer), in their order, followed by the new user
\* turn, so at most 11 messages; building them leaves the history as it was.
C24_RequestIsWindowPlusTurn ==
  /\ [](returned # <<>> =>
          LET history == args[1]
              messages == returned[1]
              n == IF Len(history) <= 10 THEN Len(history) ELSE 10
          IN /\ Len(messages) = n + 1
             /\ Len(messages) <= 11
             /\ \A k \in 1..n : messages[k] = history[Len(history) - n + k]
             /\ messages[n + 1] = [role |-> "user", content |-> args[2]])
  /\ [][returned' # returned => args' = args]_vars

\* a request has been built from a history of 12 entries
C24_Witness ==
  /\ returned # <<>>
  /\ Len(args[1]) = 12
  /\ Len(returned[1]) = 11
  /\ returned[1][1] = args[1][3]

\* C25: the request of a round ends with the user turn of the text just
\* captured, and what precedes it is the window over the history as it
\* stands when the step that ends the capture begins: everything stored so
\* far, the last reply included, and not the turn this step appends.
C25_WindowIsLiveHistory ==
  [][\A i \in Loops :
       (loops[i].pc = "capture" /\ loops'[i].pc = "fetch") =>
          LET request == loops'[i].request
              n == Len(request)
              stored == state'.history
          IN /\ n >= 1
             /\ request[n] = [role |-> "user",
                              content |-> loops'[i].finalTranscript]
             /\ SubSeq(request, 1, n - 1) = sliceLast(state.history, HISTORY_WINDOW)
             /\ state.history = SubSeq(stored, 1, Len(stored) - 1)]_vars

\* the request of the second round of a session holds the reply of the first
C25_Witness ==
  /\ CleanSession
  /\ loops[1].pc = "fetch"
  /\ Len(loops[1].request) = 4
  /\ loops[1].request[3].role = "assistant"
  /\ loops[1].request[3] = state.history[3]
  /\ Len(state.history) = 4

\* the pacing values the client can compute from a capture
ClientPacings ==
  { calculateWPM(t, d) : t \in CaptureTexts, d \in DurationsMs } \cup { 0 }

\* C26: the step that receives the answer of the endpoint stores, in stats
\* and in the entry it appends to allStats, the pacing calculateWPM gives for
\* the text and the duration of that round's capture; no pacing in the state
\* is one the endpoint sent.
C26_PacingIsClientSide ==
  /\ [](/\ state.stats.pacing_wpm \in ClientPacings
        /\ \A k \in DOMAIN state.allStats :
              state.allStats[k].pacing_wpm \in ClientPacings)
  /\ [][\A i \in Loops :
          JsonResolved(i) =>
            LET wpm == calculateWPM(loops[i].finalTranscript, loops[i].duration)
                n == Len(state'.allStats)
            IN /\ n = Len(state.allStats) + 1
               /\ state'.allStats[n].pacing_wpm = wpm
               /\ state'.stats.pacing_wpm = wpm]_vars

\* the endpoint sent a pacing of 999 for a round of two words in three
\* seconds, and the state holds 40
C26_Witness ==
  /\ CleanSession
  /\ loops[1].pc = "reply"
  /\ loops[1].res.body.analysis.pacing_wpm = 999
  /\ Len(state.allStats) = 1
  /\ state.allStats[1].pacing_wpm = 40
  /\ state.stats.pacing_wpm = 40

\* C27: when the capture of a round fails while the run flag is true, the
\* step leaves phase idle and error set to the message of the failure,
\* appends nothing to history, starts no filler clip and sends no request.
C27_CaptureFailureAbortsRound ==
  [][\A i \in Loops :
       (isRunningRef /\ \E d \in DurationsMs : RecognitionError(i, "not-allowed", d)) =>
          /\ state'.phase = "idle"
          /\ state'.error = CaptureErrorMessage("not-allowed")
          /\ state'.history = state.history
          /\ currentAudio' = currentAudio
          /\ loops'[i].pc # "fetch"]_vars

\* the request of loop i fails: fetch() rejects, the body of the response is
\* not JSON, or the response is not ok
EndpointFails(i) ==
  FetchRejected(i) \/ JsonRejected(i) \/ ErrJsonSettled(i)

\* C28: when the request of a round fails while the run flag is true, the
\* step leaves phase idle and error set, no filler clip playing, and history
\* and allStats as they were, the user turn of the round being the last
\* entry of history.
C28_EndpointFailureAbortsRound ==
  [][\A i \in Loops :
       (isRunningRef /\ EndpointFails(i)) =>
          /\ state'.phase = "idle"
          /\ state'.error # NoError
          /\ currentAudio' = 0
          /\ state'.history = state.history
          /\ state'.allStats = state.allStats]_vars

\* C29: a step in which the utterance a loop awaits fails (the opening
\* question or a reply) dispatches no SET_ERROR and leaves error as it was,
\* and while the run flag is true it dispatches FINISH_SPEAKING and then
\* START_LISTENING, as the step of a successful playback does.
C29_SpeechFailureIsSwallowed ==
  [][\A i \in Loops :
       SpeechSettled(i, FALSE) =>
          /\ \A k \in DOMAIN dispatched' : dispatched'[k].type # "SET_ERROR"
          /\ state'.error = state.error
          /\ isRunningRef =>
               /\ Len(dispatched') = 2
               /\ dispatched'[1].type = "FINISH_SPEAKING"
               /\ dispatched'[2].type = "START_LISTENING"]_vars

\* C30: a step whose last dispatch is START_LISTENING ends with phase
\* listening, an empty transcript and no error, whatever error the state or
\* an earlier dispatch of the step held; and in every state whose phase is
\* listening the error is empty and so is the transcript.
C30_ListeningHasNoError ==
  /\ [](state.phase = "listening" =>
          (state.error = NoError /\ state.transcript = <<>>))
  /\ [][(/\ dispatched' # <<>>
         /\ dispatched'[Len(dispatched')].type = "START_LISTENING") =>
           /\ state'.phase = "listening"
           /\ state'.error = NoError
           /\ state'.transcript = <<>>]_vars

\* listening again in the step in which a failed capture recorded an error
C30_Witness ==
  /\ state.phase = "listening"
  /\ state.error = NoError
  /\ Len(dispatched) = 2
  /\ dispatched[1].type = "SET_ERROR"
  /\ dispatched[2].type = "START_LISTENING"

\* C31: while the run flag is true, the step in which a capture fails or a
\* request fails leaves the flag true and begins the next round (phase
\* listening, a new capture of the same loop) with no startInterview(); and
\* the only step that clears the flag is endInterview().
C31_ErrorRetriesFlagStays ==
  [][/\ \A i \in Loops :
          (isRunningRef /\ (EndpointFails(i) \/
              \E d \in DurationsMs : RecognitionError(i, "not-allowed", d))) =>
             /\ isRunningRef'
             /\ state'.phase = "listening"
             /\ loops'[i].pc = "capture"
             /\ recognizers'[i].status = "active"
             /\ Len(loops') = Len(loops)
     /\ (isRunningRef /\ ~isRunningRef') => lastCall' = "endInterview"]_vars

\* a new capture has begun in the step in which the request of the first
\* round failed
C31_Witness ==
  /\ CleanSession
  /\ isRunningRef
  /\ Len(state.history) = 2
  /\ Len(dispatched) = 2
  /\ dispatched[1].type = "SET_ERROR"
  /\ dispatched[2].type = "START_LISTENING"
  /\ loops[1].pc = "capture"
  /\ recognizers[1].status = "active"

C33_StopResolvesCapture ==
  [][/\ lastCall' = "stopListening" =>
          /\ \A i \in Loops : recognizers[i].status = "active" =>
                                  recognizers'[i].status = "stopping"
          /\ (\A i \in Loops : recognizers[i].status # "active") =>
                recognizers' = recognizers
          /\ state' = state
          /\ loops' = loops
          /\ isRunningRef' = isRunningRef
     /\ \A i \in Loops :
          (/\ isRunningRef
           /\ recognizers[i].status = "stopping"
           /\ \E d \in DurationsMs : RecognitionEnd(i, d)) =>
             LET text == recognizers[i].finalTranscript
                 stored == IF trim(text) = <<>> THEN <<>> ELSE text
             IN /\ state'.phase = "processing"
                /\ state'.history =
                     Append(state.history, [role |-> "user", content |-> stored])
                /\ loops'[i].pc = "fetch"
                /\ Len(loops'[i].request) >= 1]_vars

\* C34: every action dispatched in a step comes from endInterview() or from
\* the loop of the latest accepted startInterview(): the loop of an earlier
\* call dispatches nothing once a later call has been accepted, so every
\* turn and every metrics entry of a session comes from that session's loop.
C34_OnlyTheLatestLoopDispatches ==
  \A k \in DOMAIN dispatched : dispatched[k].by \in { 0, Len(loops) }

\* C35: every message of every request a loop has built has a content that
\* is not empty, and no response a loop has received is the 400 by which the
\* route rejects a message without content.
C35_RequestContentsNotEmpty ==
  \A i \in Loops :
     /\ \A k \in DOMAIN loops[i].request : loops[i].request[k].content # <<>>
     /\ loops[i].res.status # 400

\* the part of C35 about the answer of the route alone
C35_NeverRejected == \A i \in Loops : loops[i].res.status # 400

\* C36: while a capture is pending, recognitionRef designates its recognizer
\* (so stopListening() reaches it), whatever events of earlier recognizers
\* arrive in the meantime.
C36_RefDesignatesPendingCapture ==
  \A k \in DOMAIN recognizers :
     recognizers[k].status \in {"active", "stopping"} => recognitionRef = k

\* C37: a filler clip is playing only while phase is processing.
C37_FillerOnlyWhileProcessing ==
  currentAudio # 0 => state.phase = "processing"

\* C38: whenever phase is speaking, history is not empty and its last entry
\* is an assistant turn.
C38_SpeakingShowsAssistantTurn ==
  state.phase = "speaking" =>
     /\ state.history # <<>>
     /\ LastTurn.role = "assistant"

\* the reply of the first round is being spoken
C38_Witness ==
  /\ state.phase = "speaking"
  /\ Len(state.history) = 3
  /\ LastTurn.role = "assistant"
  /\ LastTurn.content = utterance.text
  /\ state.history[2].role = "user"

\* the order of the phases of a round: processing is left for speaking only
ProcessingThenSpeaking ==
  state.phase = "processing" => state'.phase \in {"processing", "speaking"}

\* C39: in a session that endInterview() does not interrupt and whose awaited
\* operations all settle in the end, a round that is listening reaches
\* processing, a round that is processing reaches speaking and leaves
\* processing for nothing else, and a round that is speaking reaches
\* listening again, whether or not the filler clip ever ends (as long as the
\* bound on the turns of a behaviour leaves room for the turn the step
\* appends).
C39_RoundsMakeProgress ==
  /\ (state.phase = "listening" /\ turns < MaxTurns) ~> (state.phase = "processing")
  /\ (state.phase = "processing" /\ turns < MaxTurns) ~> (state.phase = "speaking")
  /\ (state.phase = "speaking") ~> (state.phase = "listening")
  /\ [][ProcessingThenSpeaking]_vars

\* the parts of C39 that do not involve the answer of the endpoint
C39_CaptureAndSpeechMakeProgress ==
  /\ (state.phase = "listening" /\ turns < MaxTurns) ~> (state.phase = "processing")
  /\ (state.phase = "speaking") ~> (state.phase = "listening")

\* the history holds the empty user turn of a silent round
SilentTurnStored ==
  \E k \in DOMAIN state.history : state.history[k].content = <<>>

\* the part of C39 about the answer of the endpoint, for sessions without a
\* silent round
C39_AnswerMakesProgress ==
  (state.phase = "processing" /\ turns < MaxTurns /\ ~SilentTurnStored)
     ~> (state.phase = "speaking")

\* the order of the phases of the rounds of C39, for sessions without a
\* silent round
C39_OrderWithoutSilentTurn ==
  [][~SilentTurnStored' => ProcessingThenSpeaking]_vars

====
